---- MODULE Spec2Model ----
(***************************************************************************)
(* Record linkage core of the market-survey backend:                      *)
(*   backend/matchers/address_matcher.py  (AddressMatcher: the match pass, *)
(*                                         the normalizer, the scorer and  *)
(*                                         the similarity finder)          *)
(*   backend/models/project.py            (Project, Transaction)           *)
(*   backend/config.py                    (ADDRESS_MATCH_THRESHOLD)        *)
(*                                                                         *)
(* Strings are sequences of one-character strings.  Hebrew letters are     *)
(* written with ASCII stand-ins, one stand-in per letter:                  *)
(*   r=resh x=het w=vav b=bet s=shin d=dalet t=tav k=final-kaf h=he        *)
(*   n=nun y=yod g=gimel a=alef f=final-nun m=final-mem                    *)
(* so that  rxwb = rehov,  sdrwt = sderot,  drk = derekh,  hrb = harav.    *)
(* "~" stands for the en dash, "Z" for an upper-case Latin letter.         *)
(*                                                                         *)
(* Floating point scores are kept in hundredths (0.85 is 85); every weight *)
(* of the scorer is a whole number of hundredths, and the rounding error   *)
(* of the binary doubles (below 1e-15) is under the model's resolution.    *)
(***************************************************************************)
EXTENDS Integers, Sequences, FiniteSets, TLC

(***************************************************************************)
(* Python values                                                           *)
(***************************************************************************)
\* None where a string may stand: a one-element sequence no string equals
None == <<"None">>

\* truth value of an optional string: None and "" are false
Truthy(s) == s # None /\ s # <<>>

\* str.lower() on one character: only the Latin upper-case letter changes.
LowerChar(c) == IF c = "Z" THEN "z" ELSE c

Digits == {"1", "2", "4"}

IsDigit(c) == c \in Digits

\* \s of the re module
IsSpace(c) == c \in {" ", "\t"}

HebrewLetters == {"r", "x", "w", "b", "s", "d", "t", "k", "h", "n", "y", "g", "a", "f", "m"}

\* \w of the re module: letters, digits and the underscore
IsWordChar(c) == c \in HebrewLetters \cup {"z", "Z", "c", "q", "l", "_"} \cup Digits

\* the two dashes of the building-number pattern, [-~]
IsDash(c) == c \in {"-", "~"}

(***************************************************************************)
(* str helpers                                                             *)
(***************************************************************************)
Lower(s) == [i \in 1..Len(s) |-> LowerChar(s[i])]

\* s[from..] with 1-based from; the empty string past the end
Drop(s, k) == IF k >= Len(s) THEN <<>> ELSE SubSeq(s, k + 1, Len(s))

Take(s, k) == IF k <= 0 THEN <<>> ELSE SubSeq(s, 1, IF k > Len(s) THEN Len(s) ELSE k)

StartsWith(s, p) == Len(p) <= Len(s) /\ SubSeq(s, 1, Len(p)) = p

RECURSIVE LStrip(_)
LStrip(s) == IF s # <<>> /\ IsSpace(Head(s)) THEN LStrip(Tail(s)) ELSE s

RECURSIVE RStrip(_)
RStrip(s) == IF s # <<>> /\ IsSpace(s[Len(s)]) THEN RStrip(SubSeq(s, 1, Len(s) - 1)) ELSE s

\* str.strip()
Strip(s) == RStrip(LStrip(s))

\* str.replace(old, new): every non-overlapping occurrence, left to right
RECURSIVE Replace(_, _, _)
Replace(s, old, new) ==
    IF s = <<>> THEN <<>>
    ELSE IF StartsWith(s, old) THEN new \o Replace(Drop(s, Len(old)), old, new)
    ELSE <<Head(s)>> \o Replace(Tail(s), old, new)

\* re.sub(r'[^\w\s]', ' ', s)
PunctToSpace(s) == [i \in 1..Len(s) |-> IF IsWordChar(s[i]) \/ IsSpace(s[i]) THEN s[i] ELSE " "]

\* re.sub(r'\s+', ' ', s)
RECURSIVE CollapseSpaces(_)
CollapseSpaces(s) ==
    IF s = <<>> THEN <<>>
    ELSE IF IsSpace(Head(s)) THEN <<" ">> \o CollapseSpaces(LStrip(s))
    ELSE <<Head(s)>> \o CollapseSpaces(Tail(s))

\* length of the longest run of characters satisfying \d at the start of s
RECURSIVE DigitRun(_)
DigitRun(s) == IF s # <<>> /\ IsDigit(Head(s)) THEN 1 + DigitRun(Tail(s)) ELSE 0

\* length of the leading \s* of s
SpaceRun(s) == Len(s) - Len(LStrip(s))

\* length matched by the optional group (?:\s*[-~]\s*\d+)? at the start of s
RangeTail(s) ==
    LET a == SpaceRun(s)
        afterA == Drop(s, a)
    IN  IF afterA # <<>> /\ IsDash(Head(afterA))
        THEN LET b == SpaceRun(Tail(afterA))
                 afterB == Drop(Tail(afterA), b)
                 d == DigitRun(afterB)
             IN  IF d > 0 THEN a + 1 + b + d ELSE 0
        ELSE 0

\* re.sub(r'(\d+)(?:\s*[-~]\s*\d+)?', r'\1', s)
RECURSIVE CollapseRanges(_)
CollapseRanges(s) ==
    IF s = <<>> THEN <<>>
    ELSE IF IsDigit(Head(s))
         THEN LET d == DigitRun(s)
                  r == RangeTail(Drop(s, d))
              IN  Take(s, d) \o CollapseRanges(Drop(s, d + r))
         ELSE <<Head(s)>> \o CollapseRanges(Tail(s))

(***************************************************************************)
(* AddressMatcher._normalize_address                                       *)
(***************************************************************************)
\* street_types, in the dict's insertion order: <<full word, abbreviation>>
StreetTypes ==
    << << <<"r","x","w","b">>,                 <<"r","x">> >>,
       << <<"s","d","r","w","t">>,             <<"s","d">> >>,
       << <<"d","r","k">>,                     <<"d","r">> >>,
       << <<"h","r","b">>,                     <<"h","r","b">> >>,
       << <<"h","r","b","n","y","t">>,         <<"h","r","b","n","y","t">> >>,
       << <<"h","g","a","w","f">>,             <<"h","g","a","w","f">> >>,
       << <<"h","g","a","w","n","y","m">>,     <<"h","g","a","w","n","y","m">> >> >>

\* prefixes, in list order; each ends with a space
Prefixes ==
    << <<"r","x"," ">>, <<"s","d"," ">>, <<"d","r"," ">>,
       <<"h","r","b"," ">>, <<"h","r","b","n","y","t"," ">> >>

\* mutant: no street type is rewritten
ApplyStreetTypesNone(s, k) == s

\* for full, abbr in street_types.items(): address = address.replace(full, abbr)
RECURSIVE ApplyStreetTypes(_, _)
ApplyStreetTypes(s, k) ==
    IF k > Len(StreetTypes) THEN s
    ELSE ApplyStreetTypes(Replace(s, Lower(StreetTypes[k][1]), Lower(StreetTypes[k][2])), k + 1)

\* for prefix in prefixes: if address.startswith(prefix): cut it; break
RECURSIVE StripPrefix(_, _)
StripPrefix(s, k) ==
    IF k > Len(Prefixes) THEN s
    ELSE IF StartsWith(s, Prefixes[k]) THEN Drop(s, Len(Prefixes[k]))
    ELSE StripPrefix(s, k + 1)

\* mutant: the test of line 57 is dropped, and None has no lower()
NormalizeAddressUnguarded(address) ==
    IF address = None THEN <<"AttributeError">>
    ELSE Strip(CollapseRanges(StripPrefix(
             ApplyStreetTypes(CollapseSpaces(PunctToSpace(Strip(Lower(address)))), 1), 1)))

\* _normalize_address(address); address is None or a string
NormalizeAddress(address) ==
    IF ~Truthy(address) THEN <<>>
    ELSE LET lowered   == Strip(Lower(address))
             cleaned   == CollapseSpaces(PunctToSpace(lowered))
             shortened == ApplyStreetTypes(cleaned, 1)
             cut       == StripPrefix(shortened, 1)
         IN  Strip(CollapseRanges(cut))

(***************************************************************************)
(* fuzz.partial_ratio, as called through process.extract                   *)
(* (difflib.SequenceMatcher blocks, best window of the shorter string in   *)
(* the longer one, result an integer 0..100)                               *)
(***************************************************************************)
Max(a, b) == IF a >= b THEN a ELSE b

Min(a, b) == IF a <= b THEN a ELSE b

RECURSIVE SetMax(_)
SetMax(S) == IF S = {} THEN 0 ELSE LET x == CHOOSE x \in S : TRUE IN Max(x, SetMax(S \ {x}))

RECURSIVE CommonPrefixLen(_, _)
CommonPrefixLen(a, b) ==
    IF a # <<>> /\ b # <<>> /\ Head(a) = Head(b) THEN 1 + CommonPrefixLen(Tail(a), Tail(b)) ELSE 0

\* SequenceMatcher.find_longest_match: the longest common block, the one
\* starting earliest in a, and among those the one starting earliest in b;
\* size 0 when a and b share no character
EarliestBlock(top) ==
    CHOOSE c \in top : \A o \in top : c[1] < o[1] \/ (c[1] = o[1] /\ c[2] <= o[2])

LongestBlock(cands, best) ==
    IF best = 0 THEN <<1, 1, 0>> ELSE EarliestBlock({ c \in cands : c[3] = best })

LongestAmong(cands) == LongestBlock(cands, SetMax({ c[3] : c \in cands }))

FindLongestMatch(a, b) ==
    LongestAmong({ <<i, j, CommonPrefixLen(Drop(a, i - 1), Drop(b, j - 1))>> :
                       i \in 1..Len(a), j \in 1..Len(b) })

\* the matching blocks of SequenceMatcher(None, a, b), each as
\* <<start in a, start in b, size>> (1-based, moved by ai and bi), found by
\* splitting around the longest match m and matching both sides again
RECURSIVE MatchingBlocks(_, _, _, _)
RECURSIVE SplitAround(_, _, _, _, _)
SplitAround(a, b, ai, bi, m) ==
    IF m[3] = 0 THEN {}
    ELSE MatchingBlocks(Take(a, m[1] - 1), Take(b, m[2] - 1), ai, bi)
         \cup { <<ai + m[1], bi + m[2], m[3]>> }
         \cup MatchingBlocks(Drop(a, m[1] + m[3] - 1), Drop(b, m[2] + m[3] - 1),
                             ai + m[1] + m[3] - 1, bi + m[2] + m[3] - 1)

MatchingBlocks(a, b, ai, bi) ==
    IF a = <<>> \/ b = <<>> THEN {} ELSE SplitAround(a, b, ai, bi, FindLongestMatch(a, b))

RECURSIVE SumSizes(_)
SumSizes(blocks) ==
    IF blocks = {} THEN 0
    ELSE LET x == CHOOSE x \in blocks : TRUE IN x[3] + SumSizes(blocks \ {x})

\* utils.intr(100 * 2.0*M/T): int(round(.)), halves to the even neighbour;
\* a ratio above .995 counts as 100
RatioPercent(matched, total) ==
    IF 2000 * matched > 995 * total THEN 100
    ELSE IF 2 * ((200 * matched) % total) < total THEN (200 * matched) \div total
    ELSE IF 2 * ((200 * matched) % total) > total THEN (200 * matched) \div total + 1
    ELSE IF ((200 * matched) \div total) % 2 = 0 THEN (200 * matched) \div total
    ELSE (200 * matched) \div total + 1

\* SequenceMatcher(None, a, b).ratio() in percent
Ratio(a, b) ==
    IF Len(a) + Len(b) = 0 THEN 100
    ELSE RatioPercent(SumSizes(MatchingBlocks(a, b, 0, 0)), Len(a) + Len(b))

\* the best ratio of shorter against the windows of longer that start where
\* a matching block puts them, the closing block (len(a), len(b), 0) included
BestWindow(shorter, longer) ==
    SetMax({ Ratio(shorter, Take(Drop(longer, st), Len(shorter))) :
                st \in { Max(blk[2] - blk[1], 0) : blk \in MatchingBlocks(shorter, longer, 0, 0) }
                       \cup { Len(longer) - Len(shorter) } })

\* fuzz.partial_ratio(s1, s2), through its guards in the order they wrap
\* it: equal strings score 100 (two empty strings are equal), then a
\* string that is empty scores 0
PartialRatio(s1, s2) ==
    IF s1 = s2 THEN 100
    ELSE IF s1 = <<>> \/ s2 = <<>> THEN 0
    ELSE IF Len(s1) <= Len(s2) THEN BestWindow(s1, s2) ELSE BestWindow(s2, s1)

\* fuzz.ratio(s1, s2), with the same guards
FuzzRatio(s1, s2) ==
    IF s1 = s2 THEN 100
    ELSE IF s1 = <<>> \/ s2 = <<>> THEN 0
    ELSE Ratio(s1, s2)

(***************************************************************************)
(* process.extract(query, choices, scorer=fuzz.partial_ratio, limit=10)    *)
(*                                                                         *)
(* The default processor of extract leaves a normalized address as it is   *)
(* (lower case, word characters and single spaces, stripped).              *)
(* choices is a list.  The loop of line 112 unpacks every result as        *)
(* (match_str, score, idx); an extract that yields such triples lets it    *)
(* run, while fuzzywuzzy's extract yields (choice, score) pairs for a      *)
(* list, on which the unpacking raises ValueError.  Which of the two the   *)
(* installed library does is the parameter yields_index.                   *)
(***************************************************************************)
ExtractLimit == 10

\* every choice with its score and its index in choices
Scored(query, choices) ==
    [i \in 1..Len(choices) |-> [idx |-> i, score |-> PartialRatio(query, choices[i])]]

\* position of entry i when the entries are sorted by descending score,
\* equal scores keeping the order of choices
Rank(scored, i) ==
    1 + Cardinality({ j \in 1..Len(scored) :
                        \/ scored[j].score > scored[i].score
                        \/ (scored[j].score = scored[i].score /\ j < i) })

SortedByScore(scored) ==
    [k \in 1..Len(scored) |-> scored[CHOOSE i \in 1..Len(scored) : Rank(scored, i) = k]]

\* mutant: the limit is dropped, every entry is returned
ExtractUnlimited(query, choices) == SortedByScore(Scored(query, choices))

\* mutant: the entries are left in the order of choices
ExtractUnsorted(query, choices) == Take(Scored(query, choices), ExtractLimit)

\* the limit best entries, best first
Extract(query, choices) == Take(SortedByScore(Scored(query, choices)), ExtractLimit)

(***************************************************************************)
(* AddressMatcher._find_matching_transactions                              *)
(***************************************************************************)
\* Config.ADDRESS_MATCH_THRESHOLD, 0.85, in hundredths
ADDRESS_MATCH_THRESHOLD == 85

\* score >= self.threshold: score is partial_ratio's integer 0..100 and is
\* compared as it stands with the threshold 0.85
MeetsThreshold(score) == score * 100 >= ADDRESS_MATCH_THRESHOLD

RECURSIVE SelectMatches(_, _, _)
SelectMatches(best, transaction_data, k) ==
    IF k > Len(best) THEN <<>>
    ELSE (IF MeetsThreshold(best[k].score)
          THEN << [data |-> transaction_data[best[k].idx], score |-> best[k].score] >>
          ELSE <<>>)
         \o SelectMatches(best, transaction_data, k + 1)

\* the loop over best_matches (lines 112-115): the matches it collects, or
\* the ValueError of unpacking a pair into three names
UnpackMatches(best, transaction_data, yields_index) ==
    IF best # <<>> /\ ~yields_index
    THEN [matches |-> <<>>, error |-> "ValueError"]
    ELSE [matches |-> SelectMatches(best, transaction_data, 1), error |-> "none"]

\* transaction_addresses: sequence of <<raw record, normalized address>>
FindMatchingTransactions(project_address, transaction_addresses, yields_index) ==
    LET transaction_strings == [i \in 1..Len(transaction_addresses) |-> transaction_addresses[i][2]]
        transaction_data    == [i \in 1..Len(transaction_addresses) |-> transaction_addresses[i][1]]
    IN  UnpackMatches(Extract(project_address, transaction_strings), transaction_data,
                      yields_index)

(***************************************************************************)
(* models.project and the rest of AddressMatcher                           *)
(***************************************************************************)
\* a DataSource member, and a plain str held in a sources list
DataSource(v) == [enum |-> TRUE, value |-> v]

PlainStr(v) == [enum |-> FALSE, value |-> v]

\* Transaction(price=data['price'], sale_date=data['sale_date'], ...):
\* a raw record is a dict, a missing key is a field outside its DOMAIN.
\* origin is a history field: the raw address the record came with, which
\* the Transaction itself does not keep.
CanCreateTransaction(data) == "price" \in DOMAIN data /\ "sale_date" \in DOMAIN data

CreateTransaction(data) ==
    [price |-> data.price, sale_date |-> data.sale_date, origin |-> data.address]

SeqMin(prices) == CHOOSE x \in { prices[i] : i \in 1..Len(prices) } :
                      \A i \in 1..Len(prices) : x <= prices[i]

SeqMax(prices) == CHOOSE x \in { prices[i] : i \in 1..Len(prices) } :
                      \A i \in 1..Len(prices) : x >= prices[i]

RECURSIVE SeqSum(_)
SeqSum(prices) == IF prices = <<>> THEN 0 ELSE Head(prices) + SeqSum(Tail(prices))

\* mutant: the statistics are taken from the newly appended price alone
UpdatePriceRangeNewOnly(project) ==
    LET n == Len(project.transactions)
    IN  IF n > 0
        THEN [project EXCEPT !.unit_prices =
                 [min |-> project.transactions[n].price, max |-> project.transactions[n].price,
                  avg |-> project.transactions[n].price]]
        ELSE project

\* _update_price_range(project, new_price)
UpdatePriceRange(project) ==
    LET prices == [i \in 1..Len(project.transactions) |-> project.transactions[i].price]
    IN  IF prices # <<>>
        THEN [project EXCEPT !.unit_prices =
                 [min |-> SeqMin(prices), max |-> SeqMax(prices),
                  avg |-> SeqSum(prices) \div Len(prices)]]
        ELSE project

\* the sum of the scorer's signals on top of a starting score, unclipped
Signals(project, start, perTransaction) ==
    start
    + (IF Truthy(project.project_name) THEN 20 ELSE 0)
    + (IF Truthy(project.address) THEN 20 ELSE 0)
    + (IF Truthy(project.developer_name) THEN 10 ELSE 0)
    + (IF project.coordinates # <<>> THEN 10 ELSE 0)
    + (IF project.transactions # <<>>
       THEN Min(Len(project.transactions) * perTransaction, 30) ELSE 0)
    + (IF project.unit_prices.min > 0 THEN 10 ELSE 0)
    + (IF Len(project.sources) > 1 THEN 10 ELSE 0)

\* mutant: the final min(score, 1.0) is dropped
RecalculateConfidenceUnclipped(project) == Signals(project, 0, 5)

\* mutant: a transaction weighs 0.10 instead of 0.05
RecalculateConfidenceTenth(project) == Min(Signals(project, 0, 10), 100)

\* mutant: the score is added to the previous one instead of starting at 0.0
RecalculateConfidenceIncremental(project) ==
    Min(Signals(project, project.data_confidence_score, 5), 100)

\* _recalculate_confidence(project), in hundredths
RecalculateConfidence(project) ==
    LET s1 == IF Truthy(project.project_name) THEN 20 ELSE 0
        s2 == s1 + (IF Truthy(project.address) THEN 20 ELSE 0)
        s3 == s2 + (IF Truthy(project.developer_name) THEN 10 ELSE 0)
        s4 == s3 + (IF project.coordinates # <<>> THEN 10 ELSE 0)
        s5 == s4 + (IF project.transactions # <<>>
                    THEN Min(Len(project.transactions) * 5, 30) ELSE 0)
        s6 == s5 + (IF project.unit_prices.min > 0 THEN 10 ELSE 0)
        s7 == s6 + (IF Len(project.sources) > 1 THEN 10 ELSE 0)
    IN  Min(s7, 100)

\* mutant: 'ita' is appended without looking at the sources held
AddItaSourceAlways(project) ==
    [project |-> [project EXCEPT !.sources = Append(@, PlainStr("ita"))], error |-> "none"]

\* lines 44-46: [s.value for s in project.sources] raises on a plain str,
\* which has no .value; otherwise 'ita' is appended, as a plain str, if no
\* source has that value
AddItaSource(project) ==
    IF \E i \in 1..Len(project.sources) : ~project.sources[i].enum
    THEN [project |-> project, error |-> "AttributeError"]
    ELSE IF \E i \in 1..Len(project.sources) : project.sources[i].value = "ita"
    THEN [project |-> project, error |-> "none"]
    ELSE [project |-> [project EXCEPT !.sources = Append(@, PlainStr("ita"))],
          error |-> "none"]

\* one turn of the loop over matching_transactions (lines 36-46):
\* the project after it, and the exception it raised, if any
AttachTransaction(project, m) ==
    IF ~MeetsThreshold(m.score) THEN [project |-> project, error |-> "none"]
    ELSE IF ~CanCreateTransaction(m.data) THEN [project |-> project, error |-> "KeyError"]
    ELSE AddItaSource(UpdatePriceRange(
             [project EXCEPT !.transactions = Append(@, CreateTransaction(m.data))]))

\* the loop over matching_transactions from its k-th turn on, r being what
\* the turns before left: it stops at the first exception
RECURSIVE AttachRest(_, _, _)
AttachRest(r, matching_transactions, k) ==
    IF r.error # "none" \/ k > Len(matching_transactions) THEN r
    ELSE AttachRest(AttachTransaction(r.project, matching_transactions[k]),
                    matching_transactions, k + 1)

\* found: what _find_matching_transactions returned or raised (lines 30-33)
AttachAll(project, found) ==
    AttachRest([project |-> project, error |-> found.error], found.matches, 1)

\* mutant: the score is recomputed before the transactions are attached
MatchOneProjectScoreFirst(project, transaction_addresses, yields_index) ==
    AttachAll([project EXCEPT !.data_confidence_score = RecalculateConfidence(project)],
              FindMatchingTransactions(NormalizeAddress(project.address), transaction_addresses,
                                       yields_index))

\* the body of the loop over project_addresses for one project (lines 28-51)
\* line 49, reached when the loop over matching_transactions raised nothing
ScoreUnlessRaised(r) ==
    IF r.error # "none" THEN r
    ELSE [project |-> [r.project EXCEPT !.data_confidence_score =
                           RecalculateConfidence(r.project)],
          error |-> "none"]

MatchOneProject(project, transaction_addresses, yields_index) ==
    ScoreUnlessRaised(
        AttachAll(project,
                  FindMatchingTransactions(NormalizeAddress(project.address),
                                           transaction_addresses, yields_index)))

\* match_projects_with_transactions from project i on: the projects as the
\* pass leaves them, the exception that ended it ("none": it returned) and
\* the number of projects whose loop body was entered
RECURSIVE MatchFrom(_, _, _, _)
RECURSIVE MatchNext(_, _, _, _, _)
MatchNext(projs, transaction_addresses, yields_index, i, r) ==
    IF r.error # "none"
    THEN [projects |-> [projs EXCEPT ![i] = r.project], error |-> r.error, entered |-> i]
    ELSE MatchFrom([projs EXCEPT ![i] = r.project], transaction_addresses, yields_index, i + 1)

MatchFrom(projs, transaction_addresses, yields_index, i) ==
    IF i > Len(projs) THEN [projects |-> projs, error |-> "none", entered |-> Len(projs)]
    ELSE MatchNext(projs, transaction_addresses, yields_index, i,
                   MatchOneProject(projs[i], transaction_addresses, yields_index))

MatchProjectsWithTransactions(projs, txs, yields_index) ==
    MatchFrom(projs, [i \in 1..Len(txs) |-> <<txs[i], NormalizeAddress(txs[i].address)>>],
              yields_index, 1)

(***************************************************************************)
(* AddressMatcher.find_similar_projects                                    *)
(*                                                                         *)
(* A project of a list carries oid, the identity of the Python object,     *)
(* which is no field of the model class.  total_sim is kept in tenths of   *)
(* the ratio functions' unit: (addr_sim * 0.7) + (dev_sim * 0.3) is        *)
(* (7 * addr_sim + 3 * dev_sim) / 10.                                      *)
(***************************************************************************)
\* the literal 0.7 of line 198, in tenths
SIMILARITY_THRESHOLD == 7

\* mutant: the target is not told apart from the candidates
IsTargetNever(project, target_project) == FALSE

\* project == target_project: the equality of the model class, by fields
IsTarget(project, target_project) ==
    [project EXCEPT !.oid = 0] = [target_project EXCEPT !.oid = 0]

\* target_project.developer_name or ""
OrEmpty(s) == IF Truthy(s) THEN s ELSE <<>>

\* dev_sim (lines 188-193)
DevSim(target_dev, developer_name) ==
    IF Truthy(target_dev) /\ Truthy(developer_name)
    THEN FuzzRatio(Lower(target_dev), Lower(developer_name))
    ELSE 0

\* total_sim (lines 183-196), in tenths
TotalSim(project, target_project) ==
    7 * FuzzRatio(NormalizeAddress(target_project.address), NormalizeAddress(project.address))
    + 3 * DevSim(OrEmpty(target_project.developer_name), project.developer_name)

\* lines 198-199
KeepSimilar(project, total_sim) ==
    IF total_sim >= SIMILARITY_THRESHOLD
    THEN << [project |-> project, score |-> total_sim] >>
    ELSE <<>>

\* the loop over projects from its i-th turn on (lines 179-199)
RECURSIVE SimilaritiesFrom(_, _, _)
SimilaritiesFrom(projs, target_project, i) ==
    IF i > Len(projs) THEN <<>>
    ELSE (IF IsTarget(projs[i], target_project) THEN <<>>
          ELSE KeepSimilar(projs[i], TotalSim(projs[i], target_project)))
         \o SimilaritiesFrom(projs, target_project, i + 1)

\* mutant: the similarities are returned in the order they were appended
FindSimilarProjectsUnsorted(projs, target_project) ==
    SimilaritiesFrom(projs, target_project, 1)

\* similarities.sort(key=..., reverse=True) is stable
FindSimilarProjects(projs, target_project) ==
    SortedByScore(SimilaritiesFrom(projs, target_project, 1))

(***************************************************************************)
(* Inputs                                                                  *)
(***************************************************************************)
\* longest transaction pool handed to a pass
MaxPool == 12

\* match passes run over the same project objects
MaxPasses == 2

\* most transactions of a project handed to the scorer alone
MaxTransactions == 7

A_full  == <<"r","x","w","b"," ","a","b"," ","1">>
A_plain == <<"a","b"," ","1">>
A_long  == <<"a","b"," ","1"," ","t","l">>
A_other == <<"a","c"," ","2">>
A_far   == <<"z","q">>

R1 == [address |-> A_plain, price |-> 100, sale_date |-> 1]
R2 == [address |-> A_long,  price |-> 300, sale_date |-> 1]
R3 == [address |-> A_plain, price |-> 200, sale_date |-> 2]
R4 == [address |-> A_other, price |-> 50,  sale_date |-> 1]
R5 == [address |-> A_far,   price |-> 70,  sale_date |-> 1]
R6 == [address |-> <<>>,    price |-> 10,  sale_date |-> 1]
R7 == [address |-> A_plain, price |-> -3,  sale_date |-> 1]
R8 == [address |-> A_plain, sale_date |-> 1]

RawInputs == {R1, R2, R3, R4, R5, R6, R7, R8}

Cycle == <<R1, R2, R3, R4>>

\* the raw transaction lists a pass is given: every list of at most two
\* records, and the lists R1, R2, R3, R4, R1, ... of every length up to MaxPool
Pools ==
    {<<>>} \cup { <<a>> : a \in RawInputs } \cup { <<a, b>> : a \in RawInputs, b \in RawInputs }
    \cup { [i \in 1..n |-> Cycle[((i - 1) % Len(Cycle)) + 1]] : n \in 3..MaxPool }

NoPrices == [min |-> 0, max |-> 0, avg |-> 0]

PagePrices == [min |-> 500, max |-> 900, avg |-> 700]

\* a Transaction scraped from the listing page itself
ListingTransaction == [price |-> 100, sale_date |-> 3, origin |-> None]

\* what the listing page gave: transactions, unit_prices and the score
\* the listing scraper computed from them
Listings ==
    { [transactions |-> <<>>, unit_prices |-> NoPrices, score |-> 48],
      [transactions |-> <<>>, unit_prices |-> PagePrices, score |-> 71],
      [transactions |-> <<ListingTransaction>>, unit_prices |-> PagePrices, score |-> 71] }

NewProject(name, developer, address, coordinates, listing, sources) ==
    [project_name |-> name, developer_name |-> developer, address |-> address,
     coordinates |-> coordinates, unit_prices |-> listing.unit_prices,
     transactions |-> listing.transactions, data_confidence_score |-> listing.score,
     sources |-> sources]

FirstProjects ==
    { NewProject(<<"p","1">>, None, a, <<>>, l, src) :
        a \in {A_full, A_other, <<>>}, l \in Listings,
        src \in { <<DataSource("madlan")>>, <<DataSource("madlan"), DataSource("ita")>> } }

SecondProject ==
    NewProject(<<"p","2">>, <<"d","v">>, A_other, <<>>,
               [transactions |-> <<>>, unit_prices |-> NoPrices, score |-> 48],
               <<DataSource("madlan"), DataSource("ita")>>)

ProjectLists == { <<p>> : p \in FirstProjects } \cup { <<p, SecondProject>> : p \in FirstProjects }

(***************************************************************************)
(* State                                                                   *)
(***************************************************************************)
VARIABLES
    projects,      \* the caller's list of Project objects, mutated in place
    transactions,  \* the caller's list of raw transaction records
    outcome,       \* how the last call ended: "none" before any call,
                   \* "returned", "scored", or the exception raised
    passes,        \* calls made so far
    extract_yields_index,
                   \* whether the installed process.extract yields
                   \* (choice, score, index) for a list of choices
    before,        \* history: projects as the last call found them
    matched,       \* history: per project, what _find_matching_transactions
                   \* returned in the last pass (<<>> if not reached)
    words,         \* history: the words an address string was written from
    raw_address,   \* the argument of _normalize_address
    normalized,    \* what the last call of _normalize_address returned
    target,        \* the target_project of find_similar_projects
    similar,       \* what the last call of find_similar_projects returned
    tasks,         \* main.py: the run_scraping_task coroutines, by run
    projects_store,
                   \* main.py: the global projects_store
    scrape_statuses,
                   \* main.py: the global scrape_statuses
    match_log,     \* history: the lists each match pass of a run was given
    system_prompt, \* ai_insights.system_prompt
    request,       \* history: the body of the last POST
    response       \* the last HTTP response

vars == <<projects, transactions, outcome, passes, extract_yields_index, before, matched,
          words, raw_address, normalized, target, similar,
          tasks, projects_store, scrape_statuses, match_log, system_prompt, request, response>>

\* the state of the web application (main.py)
appvars == <<tasks, projects_store, scrape_statuses, match_log, system_prompt, request,
             response>>

\* the state of the matcher's callers
matchvars == <<projects, transactions, outcome, passes, before, matched,
               words, raw_address, normalized, target, similar>>

\* most run_scraping_task runs started
MaxTasks == 2

\* a run that was not started
NoTask ==
    [pc |-> "none", source |-> "", status |-> [status |-> "none"],
     projects |-> <<>>, transactions |-> <<>>, lists |-> <<>>, raised |-> <<>>]

\* projects_store = [] (line 48), a list that belongs to no run
EmptyStore == [run |-> 0, items |-> <<>>, cleared |-> FALSE]

\* _get_default_system_prompt()
DefaultPrompt == <<"d">>

NoResponse == [status |-> 0, detail |-> "none"]

NoRequest == [kind |-> "none", value |-> <<>>]

\* the web application as the import of main.py leaves it
AppIdle ==
    /\ tasks = [t \in 1..MaxTasks |-> NoTask]
    /\ projects_store = EmptyStore
    /\ scrape_statuses = <<>>
    /\ match_log = <<>>
    /\ system_prompt = DefaultPrompt
    /\ request = NoRequest
    /\ response = NoResponse

\* no target: find_similar_projects is not part of the run
NoTarget == [oid |-> 0]

\* the normalizer and the similarity finder as a match-pass run leaves them
Idle ==
    /\ words = <<>>
    /\ raw_address = <<>>
    /\ normalized = <<>>
    /\ target = NoTarget
    /\ similar = <<>>

Init ==
    /\ projects \in ProjectLists
    /\ transactions \in Pools
    /\ outcome = "none"
    /\ passes = 0
    /\ extract_yields_index \in BOOLEAN
    /\ before = projects
    /\ matched = [i \in 1..Len(projects) |-> <<>>]
    /\ Idle
    /\ AppIdle

\* address_matcher.match_projects_with_transactions(projects, transactions)
\* what _find_matching_transactions returned for the projects a pass entered
MatchedIn(projs, txs, yields_index, entered) ==
    [i \in 1..Len(projs) |->
        IF i <= entered
        THEN FindMatchingTransactions(
                 NormalizeAddress(projs[i].address),
                 [k \in 1..Len(txs) |-> <<txs[k], NormalizeAddress(txs[k].address)>>],
                 yields_index).matches
        ELSE <<>>]

\* the state a pass that ended as r leaves
PassEnds(r) ==
    /\ projects' = r.projects
    /\ outcome' = IF r.error = "none" THEN "returned" ELSE r.error
    /\ matched' = MatchedIn(projects, transactions, extract_yields_index, r.entered)
    /\ before' = projects
    /\ passes' = passes + 1
    /\ UNCHANGED <<transactions, extract_yields_index, words, raw_address, normalized, target,
                   similar>>
    /\ UNCHANGED appvars

MatchPass ==
    /\ passes < MaxPasses
    /\ PassEnds(MatchProjectsWithTransactions(projects, transactions, extract_yields_index))

Next == MatchPass

Spec == Init /\ [][Next]_vars

(***************************************************************************)
(* The scorer on its own: any project state, scored as line 49 does        *)
(***************************************************************************)
AllSources == <<DataSource("madlan"), DataSource("ita"), DataSource("combined")>>

PriorScores == {0, 48, 100}

ScoreInputs ==
    { [project_name |-> name, developer_name |-> developer, address |-> address,
       coordinates |-> coordinates,
       unit_prices |-> [min |-> lo, max |-> 900, avg |-> 700],
       transactions |-> [i \in 1..n |-> ListingTransaction],
       data_confidence_score |-> prior,
       sources |-> Take(AllSources, k)] :
        name \in {<<>>, <<"p","1">>}, developer \in {None, <<>>, <<"d","v">>},
        address \in {<<>>, A_plain}, coordinates \in {<<>>, <<32, 34>>},
        lo \in {-3, 0, 500}, n \in 0..MaxTransactions, prior \in PriorScores,
        k \in 0..Len(AllSources) }

InitScore ==
    /\ projects \in { <<p>> : p \in ScoreInputs }
    /\ transactions = <<>>
    /\ outcome = "none"
    /\ passes = 0
    /\ extract_yields_index = TRUE
    /\ before = projects
    /\ matched = <<<<>>>>
    /\ Idle
    /\ AppIdle

\* project.data_confidence_score = self._recalculate_confidence(project)
Rescore ==
    /\ passes < MaxPasses
    /\ projects' = [i \in 1..Len(projects) |->
                      [projects[i] EXCEPT !.data_confidence_score =
                          RecalculateConfidence(projects[i])]]
    /\ outcome' = "scored"
    /\ before' = projects
    /\ passes' = passes + 1
    /\ UNCHANGED <<transactions, extract_yields_index, matched, words, raw_address,
                   normalized, target, similar>>
    /\ UNCHANGED appvars

NextScore == Rescore

SpecScore == InitScore /\ [][NextScore]_vars

(***************************************************************************)
(* The normalizer on its own: an address string, normalized, and the       *)
(* result normalized again                                                 *)
(***************************************************************************)
\* longest address, in words, handed to the normalizer
MaxWords == 3

\* the words addresses are written from: street types in full and
\* abbreviated, a title that is also a prefix, a street name, a building
\* number, number ranges with a hyphen and with an en dash, a word with an
\* upper-case letter and punctuation, and a name that holds a street type
\* inside it (rxwbwt = Rehovot)
Words ==
    { <<"r","x","w","b">>, <<"s","d","r","w","t">>, <<"r","x">>, <<"h","r","b">>,
      <<"a","b">>, <<"1","2">>, <<"1","2","-","1","4">>, <<"2","~","4">>, <<"Z","q",",">>,
      <<"r","x","w","b","w","t">> }

\* ' '.join(ws)
RECURSIVE Join(_)
Join(ws) ==
    IF ws = <<>> THEN <<>>
    ELSE IF Len(ws) = 1 THEN ws[1]
    ELSE ws[1] \o <<" ">> \o Join(Tail(ws))

\* the addresses a caller holds: the words joined, the same with blanks
\* around, and a missing address
AddressInputs ==
    { [words |-> ws, text |-> Join(ws)] : ws \in UNION { [1..n -> Words] : n \in 0..MaxWords } }
    \cup { [words |-> <<w>>, text |-> <<" ">> \o w \o <<"\t", " ">>] : w \in Words }
    \cup { [words |-> <<>>, text |-> None] }

InitNorm ==
    /\ projects = <<>>
    /\ transactions = <<>>
    /\ outcome = "none"
    /\ passes = 0
    /\ extract_yields_index = TRUE
    /\ before = <<>>
    /\ matched = <<>>
    /\ \E in \in AddressInputs : words = in.words /\ raw_address = in.text
    /\ normalized = <<>>
    /\ target = NoTarget
    /\ similar = <<>>
    /\ AppIdle

\* the call self._normalize_address(arg)
Normalizes(arg) ==
    /\ raw_address' = arg
    /\ normalized' = NormalizeAddress(arg)

\* _normalize_address called on the caller's address, then on its own result
NormalizeCall ==
    /\ passes < MaxPasses
    /\ Normalizes(IF passes = 0 THEN raw_address ELSE normalized)
    /\ outcome' = "normalized"
    /\ passes' = passes + 1
    /\ UNCHANGED <<projects, transactions, extract_yields_index, before, matched, words,
                   target, similar>>
    /\ UNCHANGED appvars

NextNorm == NormalizeCall

SpecNorm == InitNorm /\ [][NextNorm]_vars

(***************************************************************************)
(* The similarity finder on its own: a project list and a target that is   *)
(* one of its objects or an object outside it                              *)
(***************************************************************************)
\* longest project list handed to find_similar_projects
MaxSimilar == 2

D_upper == <<"Z","d">>
D_other == <<"z","q">>

\* a project object as far as find_similar_projects reads it
SimilarProject(oid, developer, address_) ==
    [oid |-> oid] @@
    NewProject(<<"p">>, developer, address_, <<>>,
               [transactions |-> <<>>, unit_prices |-> NoPrices, score |-> 48],
               <<DataSource("madlan")>>)

SimilarDevelopers == {None, D_upper, D_other}

SimilarAddresses == {A_full, A_long, A_other, A_far}

SimilarLists ==
    UNION { { [i \in 1..n |-> SimilarProject(i, dev[i], adr[i])] :
                dev \in [1..n -> SimilarDevelopers], adr \in [1..n -> SimilarAddresses] } :
            n \in 1..MaxSimilar }

\* the targets a list can be searched for: its own objects, and objects
\* that are not in it
Targets(projs) ==
    { projs[i] : i \in 1..Len(projs) }
    \cup { SimilarProject(Len(projs) + 1, d, a) : d \in SimilarDevelopers, a \in SimilarAddresses }

InitSimilar ==
    /\ projects \in SimilarLists
    /\ target \in Targets(projects)
    /\ transactions = <<>>
    /\ outcome = "none"
    /\ passes = 0
    /\ extract_yields_index = TRUE
    /\ before = projects
    /\ matched = <<>>
    /\ words = <<>>
    /\ raw_address = <<>>
    /\ normalized = <<>>
    /\ similar = <<>>
    /\ AppIdle

\* similar = address_matcher.find_similar_projects(projects, target)
FindSimilar ==
    /\ passes < MaxPasses
    /\ similar' = FindSimilarProjects(projects, target)
    /\ outcome' = "found"
    /\ passes' = passes + 1
    /\ UNCHANGED <<projects, transactions, extract_yields_index, before, matched, words,
                   raw_address, normalized, target>>
    /\ UNCHANGED appvars

NextSimilar == FindSimilar

SpecSimilar == InitSimilar /\ [][NextSimilar]_vars

(***************************************************************************)
(* main.py: the scraping runs                                              *)
(*                                                                         *)
(* A run of run_scraping_task is suspended only at its two awaits (lines   *)
(* 230 and 241); what lies between two awaits is one step.  A project      *)
(* carries run, the run whose scraper call created the object, and a list  *)
(* created at lines 223-224 carries an identity.                           *)
(***************************************************************************)
valid_cities == {"tel-aviv", "jerusalem", "haifa", "beer-sheva", "ashdod", "ashkelon"}

valid_sources == {"madlan", "tax", "all"}

\* the query parameters a client sends
Cities == {"tel-aviv", "eilat"}

Sources == {"madlan", "tax", "all", "web"}

\* mutant: every run is handed the same two lists
SharedListId(t, name) == <<0, name>>

\* projects = [] / transactions = [] (lines 223-224): a new list per run
NewListId(t, name) == <<t, name>>

\* ScrapeStatus(source=source, status="in_progress", projects_found=0)
NewStatus(t, source) ==
    [run |-> t, source |-> source, status |-> "in_progress", projects_found |-> 0,
     errors |-> <<>>]

\* a Project as MadlanScraper._scrape_project_details builds it
ScrapedProject(t) ==
    [run |-> t] @@
    NewProject(<<"p","1">>, None, A_full, <<>>,
               [transactions |-> <<>>, unit_prices |-> PagePrices, score |-> 71],
               <<DataSource("madlan")>>)

\* a Transaction as TaxAuthorityScraper._extract_transaction_details builds it
ScrapedTransaction ==
    [class |-> "Transaction", price |-> 50, sale_date |-> 1, unit_size |-> None,
     floor |-> None]

\* what await madlan_scraper.scrape_projects(city) may do
MadlanResults(t) ==
    { [raised |-> TRUE, items |-> <<>>],
      [raised |-> FALSE, items |-> <<>>],
      [raised |-> FALSE, items |-> <<ScrapedProject(t)>>] }

\* what await tax_scraper.scrape_transactions(...) may do
TaxResults ==
    { [raised |-> TRUE, items |-> <<>>],
      [raised |-> FALSE, items |-> <<>>],
      [raised |-> FALSE, items |-> <<ScrapedTransaction>>] }

\* whether an exception no inner handler catches is raised, and where
Criticals == {"none", "before_store"}

\* t['address'] (address_matcher.py line 25) of a model object
IsModelObject(t) == "class" \in DOMAIN t

\* address_matcher.match_projects_with_transactions(projects, transactions)
\* as line 255 calls it
MatchScraped(projs, txs, yields_index) ==
    IF \E k \in 1..Len(txs) : IsModelObject(txs[k])
    THEN [projects |-> projs, error |-> "TypeError", entered |-> 0]
    ELSE MatchProjectsWithTransactions(projs, txs, yields_index)

\* mutant: the recorded errors are not looked at
FinalStatusAlwaysCompleted(errors) == "completed"

\* lines 270-273
FinalStatus(errors) == IF errors # <<>> THEN "completed_with_errors" ELSE "completed"

\* mutant: the run's projects are added to what the store held
StoreExtend(store, t, projs) ==
    [run |-> t, items |-> store.items \o projs, cleared |-> FALSE]

\* projects_store = projects (line 267)
StoreReplace(store, t, projs) == [run |-> t, items |-> projs, cleared |-> FALSE]

\* lines 252-263 for the run task
Matches(task) == task.projects # <<>> /\ task.transactions # <<>>

AfterMatching(task, yields_index) ==
    LET r == MatchScraped(task.projects, task.transactions, yields_index)
    IN  IF ~Matches(task) THEN task
        ELSE IF r.error = "none" THEN [task EXCEPT !.projects = r.projects]
        ELSE [task EXCEPT !.projects = r.projects,
                          !.status.errors = Append(@, "Address matching failed"),
                          !.raised = Append(@, "matching")]

\* lines 278-281
Failed(task) ==
    [task EXCEPT !.status.status = "failed",
                 !.status.errors = Append(@, "Critical error"),
                 !.raised = Append(@, "critical")]

\* lines 270-274
Completed(task) ==
    [task EXCEPT !.status.status = FinalStatus(task.status.errors),
                 !.status.projects_found = Len(task.projects)]

\* the run as line 284 leaves it
Finished(task, critical) ==
    LET m == AfterMatching(task, extract_yields_index)
        f == IF critical = "before_store" THEN Failed(m) ELSE Completed(m)
    IN  [f EXCEPT !.pc = "done"]

\* lines 251-284 of run t: no await, one step
Finish(t, task, critical) ==
    LET f == Finished(task, critical)
    IN  /\ tasks' = [tasks EXCEPT ![t] = f]
        /\ projects_store' = IF critical = "before_store" THEN projects_store
                             ELSE StoreReplace(projects_store, t, f.projects)
        /\ scrape_statuses' = Append(scrape_statuses, f.status)
        /\ match_log' = IF Matches(task)
                        THEN Append(match_log, [run |-> t, lists |-> task.lists])
                        ELSE match_log

\* POST /api/scrape
TriggerScrape(city, source) ==
    /\ IF city \notin valid_cities \/ source \notin valid_sources
       THEN /\ response' = [status |-> 400, detail |-> "Invalid"]
            /\ tasks' = tasks
       ELSE /\ \E t \in 1..MaxTasks :
                  /\ tasks[t].pc = "none"
                  /\ \A u \in 1..(t - 1) : tasks[u].pc # "none"
                  /\ tasks' = [tasks EXCEPT ![t].pc = "queued", ![t].source = source]
            /\ response' = [status |-> 200, detail |-> "Scraping task started"]
    /\ UNCHANGED <<projects_store, scrape_statuses, match_log, system_prompt, request>>
    /\ UNCHANGED <<matchvars, extract_yields_index>>

\* lines 213-230 (source madlan or all) or 213-241 (source tax): the run up
\* to its first await
Begin(t) ==
    /\ tasks[t].pc = "queued"
    /\ tasks' = [tasks EXCEPT ![t].pc = IF tasks[t].source \in {"madlan", "all"}
                                        THEN "madlan" ELSE "tax",
                              ![t].status = NewStatus(t, tasks[t].source),
                              ![t].lists = <<NewListId(t, "projects"),
                                             NewListId(t, "transactions")>>]
    /\ UNCHANGED <<projects_store, scrape_statuses, match_log, system_prompt, request,
                   response>>
    /\ UNCHANGED <<matchvars, extract_yields_index>>

\* lines 230-236 of run t
AfterMadlan(task, result) ==
    IF result.raised
    THEN [task EXCEPT !.status.errors = Append(@, "Madlan scraping failed"),
                      !.raised = Append(@, "madlan")]
    ELSE [task EXCEPT !.projects = @ \o result.items]

\* lines 241-249 of run t
AfterTax(task, result) ==
    IF result.raised
    THEN [task EXCEPT !.status.errors = Append(@, "Tax Authority scraping failed"),
                      !.raised = Append(@, "tax")]
    ELSE [task EXCEPT !.transactions = @ \o result.items]

\* the await of line 230 ends; the run goes on to the await of line 241
MadlanThenTax(t, result) ==
    /\ tasks[t].pc = "madlan"
    /\ tasks[t].source = "all"
    /\ tasks' = [tasks EXCEPT ![t] = [AfterMadlan(tasks[t], result) EXCEPT !.pc = "tax"]]
    /\ UNCHANGED <<projects_store, scrape_statuses, match_log, system_prompt, request,
                   response>>
    /\ UNCHANGED <<matchvars, extract_yields_index>>

\* the await of line 230 ends; the run goes on to its end
MadlanThenFinish(t, result, critical) ==
    /\ tasks[t].pc = "madlan"
    /\ tasks[t].source = "madlan"
    /\ Finish(t, AfterMadlan(tasks[t], result), critical)
    /\ UNCHANGED <<system_prompt, request, response>>
    /\ UNCHANGED <<matchvars, extract_yields_index>>

\* the await of line 241 ends; the run goes on to its end
TaxThenFinish(t, result, critical) ==
    /\ tasks[t].pc = "tax"
    /\ Finish(t, AfterTax(tasks[t], result), critical)
    /\ UNCHANGED <<system_prompt, request, response>>
    /\ UNCHANGED <<matchvars, extract_yields_index>>

\* DELETE /api/projects: projects_store.clear()
ClearProjects ==
    /\ projects_store' = [projects_store EXCEPT !.items = <<>>, !.cleared = TRUE]
    /\ UNCHANGED <<tasks, scrape_statuses, match_log, system_prompt, request, response>>
    /\ UNCHANGED <<matchvars, extract_yields_index>>

\* GET /api/status: what the handler answers, a function of the state
GetScrapeStatus ==
    IF scrape_statuses = <<>> THEN "no_scrapes_yet"
    ELSE scrape_statuses[Len(scrape_statuses)].status

InitTasks ==
    /\ projects = <<>>
    /\ transactions = <<>>
    /\ outcome = "none"
    /\ passes = 0
    /\ extract_yields_index = TRUE
    /\ before = <<>>
    /\ matched = <<>>
    /\ Idle
    /\ AppIdle

NextTasks ==
    \/ \E city \in Cities, source \in Sources : TriggerScrape(city, source)
    \/ \E t \in 1..MaxTasks : Begin(t)
    \/ \E t \in 1..MaxTasks : \E result \in MadlanResults(t) : MadlanThenTax(t, result)
    \/ \E t \in 1..MaxTasks : \E result \in MadlanResults(t), critical \in Criticals :
           MadlanThenFinish(t, result, critical)
    \/ \E t \in 1..MaxTasks : \E result \in TaxResults, critical \in Criticals :
           TaxThenFinish(t, result, critical)
    \/ ClearProjects

SpecTasks == InitTasks /\ [][NextTasks]_vars

(***************************************************************************)
(* main.py: POST /api/ai-insights/prompt                                   *)
(*                                                                         *)
(* A request body is what it decodes to: no JSON at all, a JSON value that *)
(* is no object, an object without the key system_prompt, an object whose  *)
(* system_prompt is null, or one whose system_prompt is a string.          *)
(***************************************************************************)
\* longest system_prompt string posted
MaxPrompt == 3

PromptChars == {" ", "a", "b"}

PromptTexts == UNION { [1..n -> PromptChars] : n \in 0..MaxPrompt }

Bodies ==
    { [kind |-> k, value |-> <<>>] : k \in {"not_json", "list", "no_key", "null"} }
    \cup { [kind |-> "str", value |-> v] : v \in PromptTexts }

\* lines 193-204: what the body of the try does, raised naming the
\* exception that leaves it
TryUpdate(body) ==
    IF body.kind = "not_json" THEN [raised |-> "JSONDecodeError", prompt |-> <<>>]
    ELSE IF body.kind \in {"list", "null"} THEN [raised |-> "AttributeError", prompt |-> <<>>]
    ELSE LET new_prompt == IF body.kind = "no_key" THEN <<>> ELSE Strip(body.value)
         IN  IF new_prompt = <<>>
             THEN [raised |-> "HTTPException(400)", prompt |-> <<>>]
             ELSE [raised |-> "none", prompt |-> new_prompt]

\* update_system_prompt(request): HTTPException is an Exception, and the
\* handler of line 206 catches whatever the try raised
UpdateSystemPrompt(body) ==
    LET r == TryUpdate(body)
    IN  /\ request' = body
        /\ IF r.raised = "none"
           THEN /\ system_prompt' = r.prompt
                /\ response' = [status |-> 200,
                                detail |-> "System prompt updated successfully"]
           ELSE /\ system_prompt' = system_prompt
                /\ response' = [status |-> 500, detail |-> "Failed to update system prompt"]
        /\ UNCHANGED <<tasks, projects_store, scrape_statuses, match_log>>
        /\ UNCHANGED <<matchvars, extract_yields_index>>

InitPrompt == InitTasks

NextPrompt == \E body \in Bodies : UpdateSystemPrompt(body)

SpecPrompt == InitPrompt /\ [][NextPrompt]_vars

(***************************************************************************)
(* Properties                                                              *)
(***************************************************************************)
Prices(project) == [k \in 1..Len(project.transactions) |-> project.transactions[k].price]

\* transactions the last call appended to project i
Attached(i) == Len(projects[i].transactions) - Len(before[i].transactions)

SameDedupKey(t, u) ==
    t.price = u.price /\ t.sale_date = u.sale_date /\ t.origin = u.origin

C3_PricesOverWholeList ==
    \A i \in 1..Len(projects) :
        (passes >= 1 /\ Attached(i) >= 1) =>
            LET prices == Prices(projects[i])
                up     == projects[i].unit_prices
            IN  /\ \E k \in 1..Len(prices) : up.min = prices[k]
                /\ \E k \in 1..Len(prices) : up.max = prices[k]
                /\ \A k \in 1..Len(prices) : up.min <= prices[k] /\ prices[k] <= up.max
                /\ up.avg * Len(prices) <= SeqSum(prices)
                /\ SeqSum(prices) < (up.avg + 1) * Len(prices)
                /\ (prices = <<100, 300, 200>> => up = [min |-> 100, max |-> 300, avg |-> 200])

\* a project that entered the pass with a listing transaction had two more
\* attached, and its prices are [100, 300, 200]
C3_Witness ==
    \E i \in 1..Len(projects) :
        /\ passes >= 1
        /\ Len(before[i].transactions) = 1
        /\ Attached(i) = 2
        /\ Prices(projects[i]) = <<100, 300, 200>>
        /\ before[i].unit_prices = PagePrices

\* C4: a project whose transaction list is empty after a pass has
\* unit_prices {0, 0, 0}, whatever unit_prices it entered the pass with.
C4_EmptyListZeroPrices ==
    (passes >= 1 /\ outcome = "returned") =>
        \A i \in 1..Len(projects) :
            projects[i].transactions = <<>> => projects[i].unit_prices = NoPrices

\* the weights of the scorer's signals, in hundredths, as the table gives them
SignalSum(project) ==
    (IF Truthy(project.project_name) THEN 20 ELSE 0)
    + (IF Truthy(project.address) THEN 20 ELSE 0)
    + (IF Truthy(project.developer_name) THEN 10 ELSE 0)
    + (IF project.coordinates # <<>> THEN 10 ELSE 0)
    + Min(5 * Len(project.transactions), 30)
    + (IF project.unit_prices.min > 0 THEN 10 ELSE 0)
    + (IF Len(project.sources) > 1 THEN 10 ELSE 0)

\* name, address, developer and coordinates present, n transactions,
\* unit_prices.min > 0 and two sources
FullyDescribed(project, n) ==
    /\ Truthy(project.project_name) /\ Truthy(project.address)
    /\ Truthy(project.developer_name) /\ project.coordinates # <<>>
    /\ Len(project.transactions) = n
    /\ project.unit_prices.min > 0
    /\ Len(project.sources) = 2

\* C5: the score _recalculate_confidence returns lies in [0.0, 1.0] for
\* every project state.
C5_ScoreInUnitInterval ==
    outcome = "scored" =>
        \A i \in 1..Len(projects) :
            0 <= projects[i].data_confidence_score /\ projects[i].data_confidence_score <= 100

\* a project whose signals add up to more than 1.0 was scored
C5_Witness ==
    /\ outcome = "scored"
    /\ SignalSum(projects[1]) > 100
    /\ projects[1].data_confidence_score = 100

\* C6 as stated: the fully described project with exactly 3 transactions
\* is scored exactly 1.0.
C6_ThreeTransactionsScoreOne ==
    (outcome = "scored" /\ FullyDescribed(projects[1], 3)) =>
        projects[1].data_confidence_score = 100

\* C6 as amended: the fully described project with exactly 3 transactions
\* is scored exactly 0.95; with 4 or more transactions it is scored
\* exactly 1.0.
C6_ThreeTransactionsScore95 ==
    outcome = "scored" =>
        /\ FullyDescribed(projects[1], 3) => projects[1].data_confidence_score = 95
        /\ \A n \in 4..Len(projects[1].transactions) :
               FullyDescribed(projects[1], n) => projects[1].data_confidence_score = 100

C6_Witness ==
    /\ outcome = "scored"
    /\ FullyDescribed(projects[1], 3)
    /\ projects[1].data_confidence_score = 95

\* C7: the score is min(1.0, sum of the weighted signals) and depends on
\* nothing else: whatever the previous confidence_score was, the same
\* project gets the same score.
C7_ScoreIsClippedSignalSum ==
    outcome = "scored" =>
        /\ projects[1].data_confidence_score = Min(100, SignalSum(before[1]))
        /\ \A prior \in PriorScores :
               RecalculateConfidence([before[1] EXCEPT !.data_confidence_score = prior])
                   = projects[1].data_confidence_score

\* a project with a previous score other than its new one was scored
C7_Witness ==
    /\ outcome = "scored"
    /\ before[1].data_confidence_score = 48
    /\ projects[1].data_confidence_score = 85
    /\ Len(projects[1].transactions) = 1

\* C8: when the pass returns, every project's data_confidence_score is
\* the scorer's value for the project's final state.
C8_ScoreMatchesFinalState ==
    outcome = "returned" =>
        \A i \in 1..Len(projects) :
            projects[i].data_confidence_score = RecalculateConfidence(projects[i])

\* a pass returned after attaching to a project, and changed its score
C8_Witness ==
    /\ outcome = "returned"
    /\ \E i \in 1..Len(projects) :
           /\ Attached(i) >= 2
           /\ projects[i].data_confidence_score # before[i].data_confidence_score
           /\ projects[i].data_confidence_score # RecalculateConfidence(before[i])

C10_AtMostTenAccepted ==
    \A i \in 1..Len(projects) :
        Len(matched[i]) <= ExtractLimit /\ Attached(i) <= ExtractLimit

\* more than 10 records of the pool pass the threshold test for a project,
\* and 10 were attached
C10_Witness ==
    \E i \in 1..Len(projects) :
        /\ Cardinality({ k \in 1..Len(transactions) :
               MeetsThreshold(PartialRatio(NormalizeAddress(projects[i].address),
                                           NormalizeAddress(transactions[k].address))) })
               > ExtractLimit
        /\ Len(matched[i]) = ExtractLimit
        /\ Attached(i) = ExtractLimit

\* C11: within one match pass the transactions accepted for a project are
\* appended to its transaction list in non-increasing order of their
\* similarity score: the accepted list is ranked best first, and the k-th
\* transaction the pass appended was made from the k-th accepted record.
C11_AppendedInScoreOrder ==
    \A i \in 1..Len(projects) :
        /\ \A k \in 1..(Len(matched[i]) - 1) : matched[i][k].score >= matched[i][k + 1].score
        /\ \A k \in 1..Attached(i) :
               /\ k <= Len(matched[i])
               /\ projects[i].transactions[Len(before[i].transactions) + k]
                      = CreateTransaction(matched[i][k].data)

\* two records of different scores were attached, the better one first
\* although it stands later in the pool
C11_Witness ==
    \E i \in 1..Len(projects) :
        /\ outcome = "returned"
        /\ Len(transactions) = 2
        /\ Attached(i) = 2
        /\ matched[i][1].score > matched[i][2].score
        /\ matched[i][1].data = transactions[2]
        /\ matched[i][2].data = transactions[1]
        /\ projects[i].transactions[Len(before[i].transactions) + 1].price = transactions[2].price

C13_NonExclusivePassReturns ==
    (/\ passes = 1
     /\ \A i \in 1..Len(projects) :
            \A k \in 1..Len(matched[i]) : CanCreateTransaction(matched[i][k].data)
     /\ \/ \E i \in 1..Len(projects) : Len(matched[i]) >= 2
        \/ \E i, j \in 1..Len(projects) :
               i < j /\ matched[i] # <<>> /\ matched[j] # <<>>
               /\ matched[i][1].data = matched[j][1].data)
        => outcome = "returned"

\* the identifiers a project's sources hold, in list order
SourceValues(project) == [k \in 1..Len(project.sources) |-> project.sources[k].value]

HoldsIta(project) == \E k \in 1..Len(project.sources) : project.sources[k].value = "ita"

\* C14: a pass that attached a transaction to a project added the
\* identifier 'ita' to its sources exactly when the sources did not hold
\* it, and after any sequence of passes no project's sources hold the same
\* identifier twice.
C14_SourcesHoldEachIdentifierOnce ==
    \A i \in 1..Len(projects) :
        /\ \A j, k \in 1..Len(projects[i].sources) :
               j < k => projects[i].sources[j].value # projects[i].sources[k].value
        /\ Attached(i) >= 1 =>
               /\ HoldsIta(projects[i])
               /\ HoldsIta(before[i]) => projects[i].sources = before[i].sources
               /\ ~HoldsIta(before[i]) =>
                      SourceValues(projects[i]) = Append(SourceValues(before[i]), "ita")
        /\ Attached(i) = 0 => projects[i].sources = before[i].sources

\* one returning pass attached to a project that did not hold 'ita', which
\* holds it now, and to a project that held it, whose sources are as before
C14_Witness ==
    /\ outcome = "returned"
    /\ Len(projects) = 2
    /\ Attached(1) >= 1 /\ ~HoldsIta(before[1]) /\ HoldsIta(projects[1])
    /\ Attached(2) >= 1 /\ HoldsIta(before[2]) /\ Len(projects[2].sources) = 2

\* C15 as stated: _normalize_address is idempotent, normalizing its own
\* result returns that result unchanged.
C15_NormalizeIdempotent ==
    (outcome = "normalized" /\ passes >= 2) => normalized = raw_address

\* C16: _normalize_address returns the empty string for the empty string
\* and for a missing (None) address.
C16_MissingAddressGivesEmpty ==
    (outcome = "normalized" /\ ~Truthy(raw_address)) => normalized = <<>>

\* None was normalized, to the empty string
C16_Witness ==
    /\ outcome = "normalized"
    /\ passes = 1
    /\ raw_address = None
    /\ normalized = <<>>

\* C17: an address and the address that differs from it only in one word,
\* a street type in full in the one and abbreviated in the other, at any
\* position, normalize to the same string.
C17_FullWordAndAbbreviationAgree ==
    (outcome = "normalized" /\ passes = 1 /\ raw_address = Join(words)) =>
        \A p \in 1..Len(words) : \A k \in 1..Len(StreetTypes) :
            words[p] = StreetTypes[k][1] =>
                NormalizeAddress(Join([words EXCEPT ![p] = StreetTypes[k][2]])) = normalized

\* an address with a full street type as its second word was normalized
\* to the address with the abbreviation in its place
C17_Witness ==
    /\ outcome = "normalized"
    /\ passes = 1
    /\ words = << <<"a","b">>, <<"r","x","w","b">>, <<"1","2">> >>
    /\ raw_address = Join(words)
    /\ normalized = <<"a","b"," ","r","x"," ","1","2">>

\* a word that is a building-number range, and its first number
IsRange(w) ==
    /\ DigitRun(w) > 0
    /\ DigitRun(w) < Len(w)
    /\ RangeTail(Drop(w, DigitRun(w))) = Len(w) - DigitRun(w)

FirstComponent(w) == Take(w, DigitRun(w))

\* C18 as stated: an address with a building-number range and the address
\* with the range's first number in its place normalize to the same string.
C18_RangeAndFirstNumberAgree ==
    (outcome = "normalized" /\ passes = 1 /\ raw_address = Join(words)) =>
        \A p \in 1..Len(words) :
            IsRange(words[p]) =>
                NormalizeAddress(Join([words EXCEPT ![p] = FirstComponent(words[p])]))
                    = normalized

\* C19: the result of find_similar_projects(projects, p) has no entry
\* whose project is the object p itself.
C19_TargetNotReturned ==
    outcome = "found" =>
        \A k \in 1..Len(similar) : similar[k].project.oid # target.oid

\* the target is an object of the list, would itself reach the threshold,
\* and every other project of the list was returned
C19_Witness ==
    /\ outcome = "found"
    /\ Len(projects) = MaxSimilar
    /\ target.oid \in 1..Len(projects)
    /\ TotalSim(target, target) >= SIMILARITY_THRESHOLD
    /\ Len(similar) = Len(projects) - 1

\* C20 as stated: a candidate is returned exactly when its combined
\* similarity 0.7 * address + 0.3 * developer, each on the unit scale, is at
\* least 0.7 (in tenths of a percent: 7 * addr + 3 * dev >= 700).
C20_ReturnedIffSeventyPercent ==
    outcome = "found" =>
        \A i \in 1..Len(projects) :
            ~IsTarget(projects[i], target) =>
                ((\E k \in 1..Len(similar) : similar[k].project.oid = i)
                    <=> TotalSim(projects[i], target) >= 700)

\* C21: the list find_similar_projects returns is in non-increasing order
\* of combined similarity, and entries of equal combined similarity stand
\* in the order their projects have in the input list.
C21_SortedStable ==
    outcome = "found" =>
        \A k, l \in 1..Len(similar) :
            k < l =>
                /\ similar[k].score >= similar[l].score
                /\ similar[k].score = similar[l].score =>
                       similar[k].project.oid < similar[l].project.oid

\* the second project of the list scored higher and was returned first
C21_Witness ==
    /\ outcome = "found"
    /\ Len(similar) = 2
    /\ similar[1].project.oid = 2
    /\ similar[2].project.oid = 1
    /\ similar[1].score > similar[2].score

C23_BadRecordDoesNotAbortPass ==
    outcome # "KeyError"

\* sub occurs in s
Contains(s, sub) == \E i \in 0..(Len(s) - Len(sub)) : SubSeq(s, i + 1, i + Len(sub)) = sub

\* a word that is no street type but holds a full street-type word, one
\* with an abbreviation of its own, inside it
HoldsStreetType(w) ==
    \E k \in 1..Len(StreetTypes) :
        /\ StreetTypes[k][1] # StreetTypes[k][2]
        /\ w # StreetTypes[k][1]
        /\ Contains(w, StreetTypes[k][1])

\* C24 as stated: the street-type step rewrites whole words only, so a word
\* of letters that merely holds a street-type word inside it is still in
\* the normalized address.
C24_WholeWordSubstitutionOnly ==
    (outcome = "normalized" /\ passes = 1 /\ raw_address = Join(words)) =>
        \A p \in 1..Len(words) :
            HoldsStreetType(words[p]) => Contains(normalized, words[p])

\* C25 as stated: the target is excluded by identity only, so another
\* object of the list whose fields all equal the target's is compared and,
\* reaching the threshold, returned.
C25_ExactDuplicateReturned ==
    outcome = "found" =>
        \A i \in 1..Len(projects) :
            (/\ projects[i].oid # target.oid
             /\ [projects[i] EXCEPT !.oid = 0] = [target EXCEPT !.oid = 0]
             /\ TotalSim(projects[i], target) >= SIMILARITY_THRESHOLD)
                => \E k \in 1..Len(similar) : similar[k].project.oid = i

\* what a pass over the list [project] alone, with the pool txs, leaves of
\* the project
MatchedAlone(project, txs, yields_index) ==
    MatchOneProject(project,
                    [k \in 1..Len(txs) |-> <<txs[k], NormalizeAddress(txs[k].address)>>],
                    yields_index).project

FinishesClean(t) ==
    tasks[t].pc # "done" /\ tasks'[t].pc = "done" /\ tasks'[t].status.status # "failed"

\* C27: when a run of run_scraping_task finishes without a critical error,
\* projects_store is exactly the project list that run produced, and holds
\* no project of an earlier run: also when the run found no projects or
\* recorded scraper errors.
C27_StoreIsRunsList ==
    [][\A t \in 1..MaxTasks : FinishesClean(t) =>
          /\ projects_store'.items = tasks'[t].projects
          /\ \A k \in 1..Len(projects_store'.items) : projects_store'.items[k].run = t]_vars

\* C27 witness: run 1 stored a project, then run 2 finished with a scraper
\* error and no projects, and the store is empty without having been cleared
C27_Witness ==
    /\ Len(scrape_statuses) = 2
    /\ scrape_statuses[1].run = 1 /\ scrape_statuses[1].projects_found = 1
    /\ scrape_statuses[2].run = 2 /\ scrape_statuses[2].status = "completed_with_errors"
    /\ tasks[1].projects # <<>>
    /\ projects_store = [run |-> 2, items |-> <<>>, cleared |-> FALSE]

\* run t has created its lists (lines 223-224)
HasLists(t) == tasks[t].lists # <<>>

\* C28: however runs of run_scraping_task interleave at their awaits, no
\* two runs (hence no two match passes) hold the same project list, the
\* same transaction list or the same project, and projects_store is at
\* every moment the project list of one run, never a mixture of two runs'
\* projects.
C28_RunsShareNothing ==
    /\ \A t, u \in 1..MaxTasks : (t # u /\ HasLists(t) /\ HasLists(u)) =>
           /\ tasks[t].lists[1] # tasks[u].lists[1]
           /\ tasks[t].lists[2] # tasks[u].lists[2]
    /\ \A i, j \in 1..Len(match_log) : i # j =>
           /\ match_log[i].lists[1] # match_log[j].lists[1]
           /\ match_log[i].lists[2] # match_log[j].lists[2]
    /\ \A t \in 1..MaxTasks : \A k \in 1..Len(tasks[t].projects) :
           tasks[t].projects[k].run = t
    /\ \A k \in 1..Len(projects_store.items) :
           projects_store.items[k].run = projects_store.run
    /\ projects_store.run # 0 =>
           projects_store.items = IF projects_store.cleared THEN <<>>
                                  ELSE tasks[projects_store.run].projects

\* C28 witness: run 1 is suspended at the await of line 241 holding a
\* project while run 2, started after it, has made its match pass and
\* stored its own project
C28_Witness ==
    /\ tasks[1].pc = "tax" /\ tasks[1].projects # <<>>
    /\ tasks[2].pc = "done"
    /\ Len(match_log) = 1 /\ match_log[1].run = 2
    /\ projects_store.run = 2 /\ projects_store.items # <<>>

\* the statuses run t appended
AppendedBy(t) == { i \in 1..Len(scrape_statuses) : scrape_statuses[i].run = t }

\* what was raised in the run that appended status i
RaisedIn(i) ==
    LET r == tasks[scrape_statuses[i].run].raised IN { r[k] : k \in 1..Len(r) }

EmptyPrompt(body) ==
    body.kind = "no_key" \/ (body.kind = "str" /\ Strip(body.value) = <<>>)

\* C30: a POST to /api/ai-insights/prompt whose system_prompt is missing,
\* empty or white space only is answered with status 400, 'System prompt
\* cannot be empty', and leaves the stored system prompt unchanged.
C30_EmptyPromptAnswered400 ==
    [][EmptyPrompt(request') =>
          /\ response' = [status |-> 400, detail |-> "System prompt cannot be empty"]
          /\ system_prompt' = system_prompt]_vars

=============================================================================
